---- MODULE Spec2Model ----
(***************************************************************************)
(* Assessment pipeline of the hiring platform backend: coding-test         *)
(* sessions (app/api/routes/coding_test.py) with their request handlers,   *)
(* anti-cheat counters and background evaluation / summary tasks.          *)
(*                                                                         *)
(* Every request handler is one definition over the session row it has     *)
(* loaded.  Spec runs each handler as one step on the current row.         *)
(* SpecConcurrent runs a handler as two steps, the query that loads the    *)
(* row and the rest of the handler, because synchronous handlers run on a  *)
(* thread pool, each with its own database session.                        *)
(* SpecLifecycle adds the summary task to two-step start and end.          *)
(* Interview sessions (app/api/routes/multimodal_screening.py) are run by  *)
(* SpecInterview; SpecRerun runs the evaluation tasks of both kinds of     *)
(* session more than once.                                                 *)
(* SpecExtractor applies the code that cuts a JSON object out of a reply   *)
(* of the model to every short reply text.                                 *)
(* SpecAntiCheat runs the in-memory registry of                            *)
(* app/services/anti_cheat_service.py.                                     *)
(***************************************************************************)
EXTENDS Integers, Sequences, FiniteSets, TLC

\* ---------------------------------------------------------------- bounds
MaxSessions == 1        \* rows of coding_test_sessions
MaxSubs     == 1        \* rows of candidate_submissions
MaxTasks    == 2        \* background tasks ever dispatched
MaxEvents   == 3        \* anti-cheat events ever accepted for processing
MaxTime     == 2        \* clock ticks
NumHandlers == 2        \* request handlers that may be in flight together
MaxInterviews == 1      \* rows of interview_sessions
MaxTextLen  == 5        \* tokens of a reply text whose extraction is checked
MaxFlags    == 4        \* flags of one monitored session

\* ------------------------------------------------------ program constants
LinkValidity == 168     \* timedelta(days=7), in hours
TestDuration == 1       \* timedelta(minutes=60), in hours

\* ------------------------------------------------------------ optionals
Null == <<>>
Some(v) == <<v>>
IsNull(o) == o = <<>>
Val(o) == o[1]

\* ------------------------------------------------- rows of other tables
\* Candidate profiles, job descriptions and coding challenges are managed
\* by other routes; their content is fixed here.
CandidateProfileIds == {1}
JobDescriptionIds == {1, 2}
\* challenge id -> job_description_id; 0 is NULL, a challenge of no job
ChallengeJob == (1 :> 1) @@ (2 :> 1) @@ (3 :> 0)
ChallengeIds == DOMAIN ChallengeJob
\* is_hidden of each test case
ChallengeTests == (1 :> <<FALSE, TRUE>>) @@ (2 :> <<FALSE>>) @@ (3 :> <<FALSE>>)

\* ids a request may name (one more than exists)
ReqCandidateIds == {1, 2}
ReqJobIds == {1, 2, 3}
ReqSessionIds == 1..(MaxSessions + 1)
ReqChallengeIds == {1, 3, 4}
EventTypes == {"focus_change", "paste", "teleport"}
Codes == {{"return", "+"}, {"return"}}      \* which substrings the code contains

VARIABLES now, sessions, submissions, evaluations, handlers, tasks, resp, accepted,
          isessions, questions, responses, revaluations,
          ai_response_text, extracted,
          suspicious_sessions, flag_call

vars == <<now, sessions, submissions, evaluations, handlers, tasks, resp, accepted,
          isessions, questions, responses, revaluations, ai_response_text, extracted,
          suspicious_sessions, flag_call>>

\* the tables of the coding test module, with the handlers in flight, and
\* the tables of the interview (multimodal screening) module
cvars == <<sessions, submissions, evaluations, handlers, accepted>>
ivars == <<isessions, questions, responses, revaluations>>

\* a reply of the model and what the code that parses it has made of it
xvars == <<ai_response_text, extracted>>
NotExtracted == [site |-> "", outcome |-> "", type |-> "", value |-> <<>>]

\* AntiCheatService.suspicious_sessions, and the last call of
\* _flag_suspicious_activity with whether it sent an alert
avars == <<suspicious_sessions, flag_call>>
NoFlagCall == [session_id |-> "", activity_type |-> "", n |-> 0, alerted |-> FALSE]

Handlers == 1..NumHandlers

\* ------------------------------------------------------- TestSessionStatus
TestSessionStatus == {"scheduled", "started", "completed", "expired"}

\* CodingTestSession(...) as inserted by create_test_session: column defaults
CodingTestSessionWithoutTtl(cand, job, exp) ==
    [candidate_profile_id |-> cand, job_description_id |-> job,
     status |-> "scheduled",
     started_at |-> Null, ended_at |-> Null, expires_at |-> now,
     overall_score |-> Null, final_evaluation_summary |-> Null,
     window_focus_changes |-> 0, paste_count |-> 0]
CodingTestSession(cand, job, exp) ==
    [candidate_profile_id |-> cand, job_description_id |-> job,
     status |-> "scheduled",
     started_at |-> Null, ended_at |-> Null, expires_at |-> exp,
     overall_score |-> Null, final_evaluation_summary |-> Null,
     window_focus_changes |-> 0, paste_count |-> 0]

\* db.query(CodingTestSession).filter(id == sid).first()
QuerySession(sid) == IF sid \in DOMAIN sessions THEN Some(sessions[sid]) ELSE Null

\* The columns of the loaded row that a two-step handler goes on to use.
LoadedRow(sid) ==
    IF sid \in DOMAIN sessions
    THEN Some([status |-> sessions[sid].status,
               job_description_id |-> sessions[sid].job_description_id,
               window_focus_changes |-> sessions[sid].window_focus_changes,
               paste_count |-> sessions[sid].paste_count])
    ELSE Null

\* the status a handler saw when it loaded the row ("none": no such row)
Seen(row) == IF IsNull(row) THEN "none" ELSE Val(row).status

NoArg == [event_type |-> "", challenge_id |-> 0, code |-> {}]
IdleHandler == [pc |-> "idle", op |-> "", sid |-> 0, arg |-> NoArg, row |-> Null]
NoBody == [status |-> "", overall_score |-> Null, final_evaluation_summary |-> Null,
           submissions |-> <<>>, evaluation |-> Null]
NoResp == [op |-> "", sid |-> 0, etype |-> "", seen |-> "", code |-> 0, detail |-> "",
           body |-> NoBody]

\* what a handler answers: the HTTP status code, the detail of an
\* HTTPException and the response body; seen is the status it had loaded
Response(op, sid, row, code, detail, body) ==
    [op |-> op, sid |-> sid, etype |-> "", seen |-> Seen(row), code |-> code,
     detail |-> detail, body |-> body]

\* -------------------------------------------------------------------- Init
Init ==
    /\ now = 0
    /\ sessions = <<>>
    /\ submissions = <<>>
    /\ evaluations = <<>>
    /\ handlers = [h \in Handlers |-> IdleHandler]
    /\ tasks = <<>>
    /\ resp = NoResp
    /\ accepted = [s \in 1..MaxSessions |-> [window_focus_changes |-> 0, paste_count |-> 0]]
    /\ isessions = <<>>
    /\ questions = <<>>
    /\ responses = <<>>
    /\ revaluations = <<>>
    /\ ai_response_text = <<>>
    /\ extracted = NotExtracted
    /\ suspicious_sessions = <<>>
    /\ flag_call = NoFlagCall

\* the clock advances
Tick ==
    /\ now < MaxTime
    /\ now' = now + 1
    /\ UNCHANGED <<sessions, submissions, evaluations, handlers, tasks, resp, accepted>>
    /\ UNCHANGED <<ivars, xvars, avars>>

\* a handler that raises HTTPException before any commit
Reject(op, sid, row, code, detail) ==
    /\ resp' = Response(op, sid, row, code, detail, NoBody)
    /\ UNCHANGED <<now, sessions, submissions, evaluations, tasks, accepted>>

\* background_tasks.add_task(fn, id, db)
\* prompt: the request the task has sent to the model, once it has sent one
Task(kind, id) == [kind |-> kind, id |-> id, pc |-> "queued", outcome |-> "", prompt |-> Null]

\* ------------------------------------------------------ create_test_session
create_test_session(cand, job) ==
    /\ IF cand \notin CandidateProfileIds
       THEN Reject("create", 0, Null, 404, "Candidate profile not found")
       ELSE IF job \notin JobDescriptionIds
       THEN Reject("create", 0, Null, 404, "Job description not found")
       ELSE /\ Len(sessions) < MaxSessions
            /\ sessions' = Append(sessions, CodingTestSession(cand, job, now + LinkValidity))
            /\ resp' = Response("create", Len(sessions) + 1, Null, 201, "",
                                [NoBody EXCEPT !.status = "scheduled"])
            /\ UNCHANGED <<now, submissions, evaluations, tasks, accepted>>
    /\ UNCHANGED handlers
    /\ UNCHANGED <<ivars, xvars, avars>>

\* ------------------------------------------------------ start_test_session
ChallengesOf(job) == {c \in ChallengeIds : ChallengeJob[c] = job}

\* session.status != TestSessionStatus.scheduled
NotScheduledAnyMore(row) == Val(row).status = "completed"
NotScheduled(row) == Val(row).status # "scheduled"

start_test_session_keeping_expiry_on(sid, row) ==
    IF IsNull(row)
    THEN Reject("start", sid, row, 404, "Test session not found")
    ELSE IF NotScheduled(row)
    THEN Reject("start", sid, row, 400, "Test session has already been started or completed.")
    ELSE IF ChallengesOf(Val(row).job_description_id) = {}
    THEN Reject("start", sid, row, 400, "No challenges found for this job description.")
    ELSE /\ sessions' = [sessions EXCEPT ![sid].status = "started",
                                         ![sid].started_at = Some(now)]
         /\ resp' = Response("start", sid, row, 200, "", [NoBody EXCEPT !.status = "started"])
         /\ UNCHANGED <<now, submissions, evaluations, tasks, accepted>>

\* the handler, given the row its first query loaded
start_test_session_on(sid, row) ==
    IF IsNull(row)
    THEN Reject("start", sid, row, 404, "Test session not found")
    ELSE IF NotScheduled(row)
    THEN Reject("start", sid, row, 400, "Test session has already been started or completed.")
    ELSE IF ChallengesOf(Val(row).job_description_id) = {}
    THEN Reject("start", sid, row, 400, "No challenges found for this job description.")
    ELSE /\ sessions' = [sessions EXCEPT ![sid].status = "started",
                                         ![sid].started_at = Some(now),
                                         ![sid].expires_at = now + TestDuration]
         /\ resp' = Response("start", sid, row, 200, "", [NoBody EXCEPT !.status = "started"])
         /\ UNCHANGED <<now, submissions, evaluations, tasks, accepted>>

\* -------------------------------------------------------- end_test_session
end_test_session_awaiting_on(sid, row) ==
    IF IsNull(row)
    THEN Reject("end", sid, row, 404, "Test session not found")
    ELSE IF Val(row).status = "completed"
    THEN Reject("end", sid, row, 400, "Test session already completed.")
    ELSE /\ sessions' = [sessions EXCEPT ![sid].status = "completed",
                                         ![sid].ended_at = Some(now)]
         /\ tasks' = Append(tasks, [Task("summary", sid) EXCEPT !.pc = "awaiting"])
         /\ resp' = Response("end", sid, row, 200, "",
                       [NoBody EXCEPT
                          !.status = sessions'[sid].status,
                          !.overall_score = sessions'[sid].overall_score,
                          !.final_evaluation_summary =
                              Some("Evaluation in progress. Please check back later.")])
         /\ UNCHANGED <<now, submissions, evaluations, accepted>>
end_test_session_on(sid, row) ==
    IF IsNull(row)
    THEN Reject("end", sid, row, 404, "Test session not found")
    ELSE IF Val(row).status = "completed"
    THEN Reject("end", sid, row, 400, "Test session already completed.")
    ELSE /\ sessions' = [sessions EXCEPT ![sid].status = "completed",
                                         ![sid].ended_at = Some(now)]
         /\ tasks' = Append(tasks, Task("summary", sid))
         /\ resp' = Response("end", sid, row, 200, "",
                       [NoBody EXCEPT
                          !.status = sessions'[sid].status,
                          !.overall_score = sessions'[sid].overall_score,
                          !.final_evaluation_summary =
                              Some("Evaluation in progress. Please check back later.")])
         /\ UNCHANGED <<now, submissions, evaluations, accepted>>

\* ---------------------------------------------------- log_anti_cheat_event
\* not session or session.status != TestSessionStatus.started
EventSessionMissing(row) == IsNull(row)
EventSessionInactive(row) == IsNull(row) \/ (~IsNull(row) /\ Val(row).status # "started")

\* the if / elif / else over request.event_type: the counter column that
\* the event increments, "" for an unrecognized type
EventCounterLenient(etype) ==
    IF etype = "focus_change" THEN "window_focus_changes" ELSE "paste_count"
EventCounter(etype) ==
    IF etype = "focus_change" THEN "window_focus_changes"
    ELSE IF etype = "paste" THEN "paste_count"
    ELSE ""

log_anti_cheat_event_on(sid, etype, row) ==
    LET answer(code, detail) ==
            [Response("event", sid, row, code, detail, NoBody) EXCEPT !.etype = etype]
        column == EventCounter(etype)
    IN  IF EventSessionInactive(row)
        THEN /\ resp' = answer(403, "Invalid or inactive test session.")
             /\ UNCHANGED <<now, sessions, submissions, evaluations, tasks, accepted>>
        ELSE IF column # ""
        THEN \* session.<column> += 1 on the loaded object, then commit
             /\ sessions' = [sessions EXCEPT ![sid][column] = Val(row)[column] + 1]
             /\ accepted' = [accepted EXCEPT ![sid][column] = @ + 1]
             /\ resp' = answer(204, "")
             /\ UNCHANGED <<now, submissions, evaluations, tasks>>
        ELSE /\ resp' = answer(400, "Invalid event type.")
             /\ UNCHANGED <<now, sessions, submissions, evaluations, tasks, accepted>>

\* ------------------------------------------------- execute_code_in_sandbox
RECURSIVE CountPassed(_, _)
CountPassed(is_correct_solution, test_cases) ==
    IF test_cases = <<>> THEN 0
    ELSE (IF is_correct_solution /\ ~Head(test_cases) THEN 1 ELSE 0)
         + CountPassed(is_correct_solution, Tail(test_cases))

execute_code_in_sandbox(code, test_cases) ==
    LET is_correct_solution == "return" \in code /\ "+" \in code
        passed_tests == CountPassed(is_correct_solution, test_cases)
    IN  [passed_tests |-> passed_tests, total_tests |-> Len(test_cases),
         stderr_empty |-> (passed_tests = Len(test_cases))]

\* -------------------------------------------------------------- submit_code
CandidateSubmission(sid, challenge_id, code, execution_result) ==
    [test_session_id |-> sid, challenge_id |-> challenge_id, code |-> code,
     execution_result |-> execution_result]

\* not session or session.status != TestSessionStatus.started
SubmitSessionMissing(row) == IsNull(row)
SubmitSessionInactive(row) == IsNull(row) \/ (~IsNull(row) /\ Val(row).status # "started")

submit_code_on(sid, challenge_id, code, row) ==
    IF SubmitSessionInactive(row)
    THEN Reject("submit", sid, row, 403, "Invalid or inactive test session.")
    ELSE IF challenge_id \notin ChallengeIds
    THEN Reject("submit", sid, row, 404, "Coding challenge not found.")
    ELSE LET execution_result == execute_code_in_sandbox(code, ChallengeTests[challenge_id])
         IN  /\ submissions' = Append(submissions,
                     CandidateSubmission(sid, challenge_id, code, execution_result))
             /\ tasks' = Append(tasks, Task("eval", Len(submissions) + 1))
             /\ resp' = Response("submit", sid, row, 200, "", NoBody)
             /\ UNCHANGED <<now, sessions, evaluations, accepted>>

\* --------------------------------------------- get_final_session_evaluation
\* sub.evaluation: the evaluation row of a submission, if any
EvaluationOf(sub_id) ==
    LET idx == {i \in DOMAIN evaluations : evaluations[i].submission_id = sub_id}
    IN  IF idx = {} THEN Null ELSE Some(evaluations[CHOOSE i \in idx : \A j \in idx : i <= j])

\* session.submissions
SubmissionsOf(sid) == {i \in DOMAIN submissions : submissions[i].test_session_id = sid}

SubmissionDetails(sid) ==
    [i \in SubmissionsOf(sid) |->
        [challenge_id |-> submissions[i].challenge_id,
         passed_tests |-> submissions[i].execution_result.passed_tests,
         total_tests |-> submissions[i].execution_result.total_tests,
         evaluation |-> EvaluationOf(i)]]

\* "not x" of Python for an optional text: None or the empty string
Falsy(o) == IsNull(o) \/ o = Some("")

\* FinalEvaluationResponse declares overall_score: Optional[float] without
\* a default and the first return leaves it out.  optional_required: the
\* installed pydantic takes such a field as required (pydantic 2, which
\* the pydantic_settings import of app/core/config.py needs) and the
\* constructor raises ValidationError; otherwise it defaults to None.
get_final_session_evaluation(sid, optional_required) ==
    /\ LET row == QuerySession(sid)
           r(code, detail, body) == Response("read", sid, row, code, detail, body)
       IN  IF IsNull(row)
           THEN resp' = r(404, "Test session not found", NoBody)
           ELSE IF Val(row).status # "completed"
           THEN resp' = r(400, "Session not completed.", NoBody)
           ELSE IF Falsy(Val(row).final_evaluation_summary) /\ optional_required
           THEN resp' = r(500, "ValidationError", NoBody)
           ELSE IF Falsy(Val(row).final_evaluation_summary)
           THEN resp' = r(200, "",
                    [NoBody EXCEPT
                       !.status = Val(row).status,
                       !.final_evaluation_summary =
                          Some("Evaluation is still in progress. Please check back in a few moments.")])
           ELSE resp' = r(200, "",
                    [NoBody EXCEPT
                       !.status = Val(row).status,
                       !.overall_score = Val(row).overall_score,
                       !.final_evaluation_summary = Val(row).final_evaluation_summary,
                       !.submissions = SubmissionDetails(sid)])
    /\ UNCHANGED <<now, sessions, submissions, evaluations, handlers, tasks, accepted>>
    /\ UNCHANGED <<ivars, xvars, avars>>

\* ------------------------------------------------- language-model replies
\* A reply text is a sequence of tokens: an opening brace, a closing brace,
\* a "key": value member, prose without braces or brackets, whitespace, a
\* "key": that a value follows, a scalar (42, null), an opening bracket or
\* a closing bracket.
LB == [t |-> "{", k |-> "", v |-> Null]
RB == [t |-> "}", k |-> "", v |-> Null]
Prose == [t |-> "prose", k |-> "", v |-> Null]
KV(k, v) == [t |-> "kv", k |-> k, v |-> Some(v)]
WS == [t |-> "ws", k |-> "", v |-> Null]
Key(k) == [t |-> "key", k |-> k, v |-> Null]
Value == [t |-> "value", k |-> "", v |-> Null]
LBracket == [t |-> "[", k |-> "", v |-> Null]
RBracket == [t |-> "]", k |-> "", v |-> Null]

ReplyTexts ==
    { <<Prose, LB, KV("correctness_score", 90), KV("ai_feedback", "good"), RB, Prose>>,
      <<LB, KV("overall_score", 82), KV("final_evaluation_summary", "summary"), RB>>,
      <<LB, KV("relevance_score", 85), RB>>,
      <<LB, KV("correctness_score", 150), RB>>,
      <<Prose>> }

\* gemini.generate_content(prompt): raises, or returns a text
GeminiOutcomes ==
    {[raises |-> TRUE, text |-> <<>>]} \cup {[raises |-> FALSE, text |-> t] : t \in ReplyTexts}

Min(a, b) == IF a < b THEN a ELSE b
Max(a, b) == IF a > b THEN a ELSE b

\* str.find(c): 0-based index of the first c, -1 when absent
PyFind(text, c) ==
    LET idx == {i \in DOMAIN text : text[i].t = c}
    IN  IF idx = {} THEN 0 - 1 ELSE (CHOOSE i \in idx : \A j \in idx : i <= j) - 1

\* str.rfind(c): 0-based index of the last c, -1 when absent
PyRFind(text, c) ==
    LET idx == {i \in DOMAIN text : text[i].t = c}
    IN  IF idx = {} THEN 0 - 1 ELSE (CHOOSE i \in idx : \A j \in idx : i >= j) - 1

\* text[start:end] with Python's clamping and negative indices
PySlice(text, start, end) ==
    LET n == Len(text)
        s == IF start < 0 THEN Max(n + start, 0) ELSE Min(start, n)
        e == IF end < 0 THEN Max(n + end, 0) ELSE Min(end, n)
    IN  SubSeq(text, s + 1, e)

\* json.loads: whitespace is skipped between the tokens of a document
RECURSIVE SkipWs(_, _)
SkipWs(s, i) == IF i <= Len(s) /\ s[i].t = "ws" THEN SkipWs(s, i + 1) ELSE i

\* a repeated key keeps its last value
Put(d, k, v) == [x \in (DOMAIN d) \cup {k} |-> IF x = k THEN v ELSE d[x]]

NoMembers == [ok |-> FALSE, next |-> 0, type |-> "", val |-> <<>>]

RECURSIVE ParseValue(_, _)
RECURSIVE ParseMembers(_, _, _)
RECURSIVE ParseElements(_, _, _)

\* the JSON value that starts at position i: an object, an array or a scalar
ParseValue(s, i) ==
    LET j == SkipWs(s, i)
    IN  IF j > Len(s) THEN NoMembers
        ELSE IF s[j].t = "{" THEN ParseMembers(s, j + 1, <<>>)
        ELSE IF s[j].t = "[" THEN ParseElements(s, j + 1, <<>>)
        ELSE IF s[j].t = "value"
        THEN [ok |-> TRUE, next |-> j + 1, type |-> "scalar", val |-> "value"]
        ELSE NoMembers

\* the members of an object from position i up to its closing brace
ParseMembers(s, i, acc) ==
    LET j == SkipWs(s, i)
    IN  IF j > Len(s) THEN NoMembers
        ELSE IF s[j].t = "}"
        THEN [ok |-> TRUE, next |-> j + 1, type |-> "dict", val |-> acc]
        ELSE IF s[j].t = "kv" THEN ParseMembers(s, j + 1, Put(acc, s[j].k, s[j].v))
        ELSE IF s[j].t = "key"
        THEN LET v == ParseValue(s, j + 1)
             IN  IF v.ok
                 THEN ParseMembers(s, v.next,
                                   Put(acc, s[j].k, Some([type |-> v.type, val |-> v.val])))
                 ELSE NoMembers
        ELSE NoMembers

\* the elements of an array from position i up to its closing bracket
ParseElements(s, i, acc) ==
    LET j == SkipWs(s, i)
    IN  IF j > Len(s) THEN NoMembers
        ELSE IF s[j].t = "]"
        THEN [ok |-> TRUE, next |-> j + 1, type |-> "list", val |-> acc]
        ELSE LET v == ParseValue(s, j)
             IN  IF v.ok
                 THEN ParseElements(s, v.next, Append(acc, [type |-> v.type, val |-> v.val]))
                 ELSE NoMembers

JSONDecodeError == [ok |-> FALSE, type |-> "", data |-> <<>>]

\* json.loads: one JSON value, an object or not, with nothing but
\* whitespace around it; anything else raises JSONDecodeError
json_loads(json_str) ==
    LET v == ParseValue(json_str, 1)
    IN  IF v.ok /\ SkipWs(json_str, v.next) > Len(json_str)
        THEN [ok |-> TRUE, type |-> v.type, data |-> v.val]
        ELSE JSONDecodeError

ExtractJsonBeforeBrace(response_text) ==
    LET start_idx == PyFind(response_text, "{")
        end_idx == PyRFind(response_text, "}")
    IN  json_loads(PySlice(response_text, start_idx, end_idx))

\* start_idx = text.find('{'); end_idx = text.rfind('}') + 1;
\* json.loads(text[start_idx:end_idx])
ExtractJson(response_text) ==
    LET start_idx == PyFind(response_text, "{")
        end_idx == PyRFind(response_text, "}") + 1
    IN  json_loads(PySlice(response_text, start_idx, end_idx))

\* the same with the guard of generate_job_description:
\* if start_idx >= 0 and end_idx > start_idx: json.loads(the slice)
\* else: json.loads(response_text)
ExtractJsonOrWhole(text) ==
    LET start_idx == PyFind(text, "{")
        end_idx == PyRFind(text, "}") + 1
    IN  IF start_idx >= 0 /\ end_idx > start_idx
        THEN json_loads(PySlice(text, start_idx, end_idx))
        ELSE json_loads(text)

\* generate_interview_questions: the same guard with '[' and ']'
ExtractJsonArrayOrWhole(text) ==
    LET start_idx == PyFind(text, "[")
        end_idx == PyRFind(text, "]") + 1
    IN  IF start_idx >= 0 /\ end_idx > start_idx
        THEN json_loads(PySlice(text, start_idx, end_idx))
        ELSE json_loads(text)

\* dict.get(key): None when the key is absent
Get(data, key) == IF key \in DOMAIN data THEN data[key] ELSE Null

\* ----------------------------------------------------- SubmissionEvaluation
EvaluationColumns == {"correctness_score", "efficiency_score", "style_score",
                      "readability_score", "plagiarism_score", "ai_feedback"}

SubmissionEvaluationZeroFilled(submission_id, eval_data) ==
    [c \in EvaluationColumns |-> IF c \in DOMAIN eval_data THEN eval_data[c] ELSE Some(0)]
        @@ [submission_id |-> submission_id]

\* SubmissionEvaluation(submission_id=..., **eval_data); the declarative
\* constructor raises TypeError for a keyword that is not an attribute
SubmissionEvaluation(submission_id, eval_data) ==
    [c \in EvaluationColumns |-> Get(eval_data, c)] @@ [submission_id |-> submission_id]

\* UNIQUE (submission_id) of submission_evaluations
NoUniqueSubmissionId(submission_id) == TRUE
UniqueSubmissionId(submission_id) ==
    \A i \in DOMAIN evaluations : evaluations[i].submission_id # submission_id

\* ----------------------------------------------- evaluate_submission_with_ai
SetTask(t, pc, outcome) == tasks' = [tasks EXCEPT ![t].pc = pc, ![t].outcome = outcome]

evaluate_start_if_started(t) ==
    /\ t \in DOMAIN tasks
    /\ tasks[t].kind = "eval" /\ tasks[t].pc = "queued"
    /\ IF tasks[t].id \notin DOMAIN submissions
       THEN SetTask(t, "done", "not found")
       ELSE IF sessions[submissions[tasks[t].id].test_session_id].status # "started"
       THEN SetTask(t, "done", "cancelled")
       ELSE SetTask(t, "awaiting", "")
    /\ UNCHANGED <<now, sessions, submissions, evaluations, handlers, resp, accepted>>
    /\ UNCHANGED <<ivars, xvars, avars>>

\* up to the await of the model call
evaluate_start(t) ==
    /\ t \in DOMAIN tasks
    /\ tasks[t].kind = "eval" /\ tasks[t].pc = "queued"
    /\ IF tasks[t].id \notin DOMAIN submissions
       THEN SetTask(t, "done", "not found")
       ELSE SetTask(t, "awaiting", "")
    /\ UNCHANGED <<now, sessions, submissions, evaluations, handlers, resp, accepted>>
    /\ UNCHANGED <<ivars, xvars, avars>>

evaluate_submission_with_retry(t, reply) ==
    /\ t \in DOMAIN tasks
    /\ tasks[t].kind = "eval" /\ tasks[t].pc = "awaiting"
    /\ LET parsed == ExtractJson(reply.text)
           submission_id == tasks[t].id
       IN  IF reply.raises
           THEN SetTask(t, "queued", "") /\ UNCHANGED evaluations
           ELSE IF ~parsed.ok
           THEN SetTask(t, "done", "parse error") /\ UNCHANGED evaluations
           ELSE IF ~(DOMAIN parsed.data \subseteq EvaluationColumns)
           THEN SetTask(t, "done", "type error") /\ UNCHANGED evaluations
           ELSE IF ~UniqueSubmissionId(submission_id)
           THEN SetTask(t, "done", "integrity error") /\ UNCHANGED evaluations
           ELSE /\ evaluations' = Append(evaluations,
                                         SubmissionEvaluation(submission_id, parsed.data))
                /\ SetTask(t, "done", "ok")
    /\ UNCHANGED <<now, sessions, submissions, handlers, resp, accepted>>
    /\ UNCHANGED <<ivars, xvars, avars>>

\* from the reply to the end of the try block
evaluate_submission_with_ai(t, reply) ==
    /\ t \in DOMAIN tasks
    /\ tasks[t].kind = "eval" /\ tasks[t].pc = "awaiting"
    /\ LET parsed == ExtractJson(reply.text)
           submission_id == tasks[t].id
       IN  IF reply.raises
           THEN SetTask(t, "done", "model error") /\ UNCHANGED evaluations
           ELSE IF ~parsed.ok
           THEN SetTask(t, "done", "parse error") /\ UNCHANGED evaluations
           ELSE IF ~(DOMAIN parsed.data \subseteq EvaluationColumns)
           THEN SetTask(t, "done", "type error") /\ UNCHANGED evaluations
           ELSE IF ~UniqueSubmissionId(submission_id)
           THEN SetTask(t, "done", "integrity error") /\ UNCHANGED evaluations
           ELSE /\ evaluations' = Append(evaluations,
                                         SubmissionEvaluation(submission_id, parsed.data))
                /\ SetTask(t, "done", "ok")
    /\ UNCHANGED <<now, sessions, submissions, handlers, resp, accepted>>
    /\ UNCHANGED <<ivars, xvars, avars>>

\* ----------------------------------------------- generate_final_test_summary
\* the evaluations of the session's submissions, as listed in the prompt
SubmissionEvaluations(sid) ==
    {i \in DOMAIN evaluations :
        \E j \in SubmissionsOf(sid) : evaluations[i].submission_id = j}

\* the task sends its request and waits for the reply
SendPrompt(t, prompt) ==
    tasks' = [tasks EXCEPT ![t].pc = "awaiting", ![t].outcome = "", ![t].prompt = Some(prompt)]

\* what the prompt of the session summary is built from: both counters and
\* one entry for each submission that has an evaluation
SummaryPrompt(sid) ==
    [window_focus_changes |-> sessions[sid].window_focus_changes,
     paste_count |-> sessions[sid].paste_count,
     submission_evaluations |->
        {j \in SubmissionsOf(sid) : ~IsNull(EvaluationOf(j))}]

summary_start_when_all_evaluated(t) ==
    /\ t \in DOMAIN tasks
    /\ tasks[t].kind = "summary" /\ tasks[t].pc = "queued"
    /\ LET sid == tasks[t].id
       IN  IF sid \notin DOMAIN sessions
           THEN SetTask(t, "done", "not found")
           ELSE IF \E c \in ChallengesOf(sessions[sid].job_description_id) :
                      \A j \in SummaryPrompt(sid).submission_evaluations :
                          submissions[j].challenge_id # c
           THEN SetTask(t, "done", "incomplete")
           ELSE SendPrompt(t, SummaryPrompt(sid))
    /\ UNCHANGED <<now, sessions, submissions, evaluations, handlers, resp, accepted>>
    /\ UNCHANGED <<ivars, xvars, avars>>

summary_start(t) ==
    /\ t \in DOMAIN tasks
    /\ tasks[t].kind = "summary" /\ tasks[t].pc = "queued"
    /\ LET sid == tasks[t].id
       IN  IF sid \notin DOMAIN sessions
           THEN SetTask(t, "done", "not found")
           ELSE SendPrompt(t, SummaryPrompt(sid))
    /\ UNCHANGED <<now, sessions, submissions, evaluations, handlers, resp, accepted>>
    /\ UNCHANGED <<ivars, xvars, avars>>

generate_final_test_summary_marking(t, reply) ==
    /\ t \in DOMAIN tasks
    /\ tasks[t].kind = "summary" /\ tasks[t].pc = "awaiting"
    /\ LET parsed == ExtractJson(reply.text)
           sid == tasks[t].id
       IN  IF reply.raises
           THEN SetTask(t, "done", "model error") /\ UNCHANGED sessions
           ELSE IF ~parsed.ok
           THEN /\ SetTask(t, "done", "parse error")
                /\ sessions' = [sessions EXCEPT
                                  ![sid].final_evaluation_summary = Some("failed")]
           ELSE /\ sessions' = [sessions EXCEPT
                                  ![sid].overall_score = Get(parsed.data, "overall_score"),
                                  ![sid].final_evaluation_summary =
                                        Get(parsed.data, "final_evaluation_summary")]
                /\ SetTask(t, "done", "ok")
    /\ UNCHANGED <<now, submissions, evaluations, handlers, resp, accepted>>
    /\ UNCHANGED <<ivars, xvars, avars>>

generate_final_test_summary(t, reply) ==
    /\ t \in DOMAIN tasks
    /\ tasks[t].kind = "summary" /\ tasks[t].pc = "awaiting"
    /\ LET parsed == ExtractJson(reply.text)
           sid == tasks[t].id
       IN  IF reply.raises
           THEN SetTask(t, "done", "model error") /\ UNCHANGED sessions
           ELSE IF ~parsed.ok
           THEN SetTask(t, "done", "parse error") /\ UNCHANGED sessions
           ELSE /\ sessions' = [sessions EXCEPT
                                  ![sid].overall_score = Get(parsed.data, "overall_score"),
                                  ![sid].final_evaluation_summary =
                                        Get(parsed.data, "final_evaluation_summary")]
                /\ SetTask(t, "done", "ok")
    /\ UNCHANGED <<now, submissions, evaluations, handlers, resp, accepted>>
    /\ UNCHANGED <<ivars, xvars, avars>>

InFlight(ops) == Cardinality({h \in Handlers : handlers[h].pc = "loaded" /\ handlers[h].op \in ops})

\* --------------------------------------- handlers as one step (Spec)
\* The bounds cap only requests that would add a row, a task or an event;
\* a request that is going to be rejected is always possible.
RoomForTask == Len(tasks) + InFlight({"end", "submit"}) < MaxTasks
RoomForSubmission == Len(submissions) + InFlight({"submit"}) < MaxSubs
RoomForEvent ==
    \A s \in DOMAIN accepted :
        accepted[s].window_focus_changes + accepted[s].paste_count + InFlight({"event"})
            < MaxEvents

RoomToEnd(sid) == Seen(LoadedRow(sid)) \in {"scheduled", "started", "expired"} => RoomForTask
RoomToLog(sid) == Seen(LoadedRow(sid)) = "started" => RoomForEvent
RoomToSubmit(sid) == Seen(LoadedRow(sid)) = "started" => (RoomForTask /\ RoomForSubmission)

start_test_session(sid) ==
    start_test_session_on(sid, LoadedRow(sid)) /\ UNCHANGED handlers /\ UNCHANGED <<ivars, xvars, avars>>

end_test_session(sid) ==
    /\ RoomToEnd(sid)
    /\ end_test_session_on(sid, LoadedRow(sid))
    /\ UNCHANGED handlers /\ UNCHANGED <<ivars, xvars, avars>>

log_anti_cheat_event(sid, etype) ==
    /\ RoomToLog(sid)
    /\ log_anti_cheat_event_on(sid, etype, LoadedRow(sid))
    /\ UNCHANGED handlers /\ UNCHANGED <<ivars, xvars, avars>>

submit_code(sid, challenge_id, code) ==
    /\ RoomToSubmit(sid)
    /\ submit_code_on(sid, challenge_id, code, LoadedRow(sid))
    /\ UNCHANGED handlers /\ UNCHANGED <<ivars, xvars, avars>>

\* ------------------------- handlers as two steps (SpecConcurrent)
\* first step: db.query(CodingTestSession)...first() in the handler's own
\* database session
Load(h, op, sid, arg) ==
    /\ handlers[h].pc = "idle"
    /\ handlers' = [handlers EXCEPT ![h] =
                      [pc |-> "loaded", op |-> op, sid |-> sid, arg |-> arg, row |-> LoadedRow(sid)]]
    /\ UNCHANGED <<now, sessions, submissions, evaluations, tasks, resp, accepted>>
    /\ UNCHANGED <<ivars, xvars, avars>>

start_load(h, sid) == Load(h, "start", sid, NoArg)
end_load(h, sid) == RoomToEnd(sid) /\ Load(h, "end", sid, NoArg)
event_load(h, sid, etype) ==
    RoomToLog(sid) /\ Load(h, "event", sid, [NoArg EXCEPT !.event_type = etype])
submit_load(h, sid, challenge_id, code) ==
    /\ RoomToSubmit(sid)
    /\ Load(h, "submit", sid, [NoArg EXCEPT !.challenge_id = challenge_id, !.code = code])

\* second step: the rest of the handler, on the row loaded earlier
Finish(h) ==
    /\ handlers[h].pc = "loaded"
    /\ LET op == handlers[h].op
           sid == handlers[h].sid
           arg == handlers[h].arg
           row == handlers[h].row
       IN  CASE op = "start" -> start_test_session_on(sid, row)
             [] op = "end" -> end_test_session_on(sid, row)
             [] op = "event" -> log_anti_cheat_event_on(sid, arg.event_type, row)
             [] op = "submit" -> submit_code_on(sid, arg.challenge_id, arg.code, row)
    /\ handlers' = [handlers EXCEPT ![h] = IdleHandler]
    /\ UNCHANGED <<ivars, xvars, avars>>

\* ------------------------------------------------------------------- Next
Background ==
    \/ \E t \in 1..MaxTasks : evaluate_start(t)
    \/ \E t \in 1..MaxTasks, reply \in GeminiOutcomes : evaluate_submission_with_ai(t, reply)
    \/ \E t \in 1..MaxTasks : summary_start(t)
    \/ \E t \in 1..MaxTasks, reply \in GeminiOutcomes : generate_final_test_summary(t, reply)

Next ==
    \/ Tick
    \/ \E cand \in ReqCandidateIds, job \in ReqJobIds : create_test_session(cand, job)
    \/ \E sid \in ReqSessionIds : start_test_session(sid)
    \/ \E sid \in ReqSessionIds : end_test_session(sid)
    \/ \E sid \in ReqSessionIds, etype \in EventTypes : log_anti_cheat_event(sid, etype)
    \/ \E sid \in ReqSessionIds, c \in ReqChallengeIds, code \in Codes : submit_code(sid, c, code)
    \/ \E sid \in ReqSessionIds, optional_required \in BOOLEAN :
          get_final_session_evaluation(sid, optional_required)
    \/ Background

Spec == Init /\ [][Next]_vars

NextConcurrent ==
    \/ \E cand \in ReqCandidateIds, job \in ReqJobIds : create_test_session(cand, job)
    \/ \E h \in Handlers, sid \in ReqSessionIds : start_load(h, sid)
    \/ \E h \in Handlers, sid \in ReqSessionIds : end_load(h, sid)
    \/ \E h \in Handlers, sid \in ReqSessionIds, etype \in EventTypes : event_load(h, sid, etype)
    \/ \E h \in Handlers, sid \in ReqSessionIds : submit_load(h, sid, 1, {"return", "+"})
    \/ \E h \in Handlers : Finish(h)

SpecConcurrent == Init /\ [][NextConcurrent]_vars

\* the life cycle of a session under concurrent requests: two-step start
\* and end handlers, the summary task that end dispatches and the read
NextLifecycle ==
    \/ \E cand \in ReqCandidateIds, job \in ReqJobIds : create_test_session(cand, job)
    \/ \E h \in Handlers, sid \in ReqSessionIds : start_load(h, sid)
    \/ \E h \in Handlers, sid \in ReqSessionIds : end_load(h, sid)
    \/ \E h \in Handlers : Finish(h)
    \/ \E t \in 1..MaxTasks : summary_start(t)
    \/ \E t \in 1..MaxTasks, reply \in GeminiOutcomes : generate_final_test_summary(t, reply)
    \/ \E sid \in ReqSessionIds, optional_required \in BOOLEAN :
          get_final_session_evaluation(sid, optional_required)

SpecLifecycle == Init /\ [][NextLifecycle]_vars

\* ================================================ interview sessions
\* app/api/routes/multimodal_screening.py.  The handlers are coroutines of
\* the event loop; each is taken as one step.

\* interview questions generated for a job description (another route):
\* job_description_id -> ids in the order the query returns them
InterviewQuestions == (1 :> <<1, 2>>) @@ (2 :> <<>>)
ReqNumQuestions == {1, 2}
ReqInterviewIds == 1..(MaxInterviews + 1)
ReqQuestionIds == 1..3

InterviewStatus == {"scheduled", "in_progress", "completed", "cancelled", "failed"}
ResponseStatus == {"pending", "processing", "completed", "failed"}

\* InterviewSession(...) as inserted by start_interview_session
InterviewSession(cand, job) ==
    [candidate_profile_id |-> cand, job_description_id |-> job,
     status |-> "in_progress", started_at |-> Some(now), ended_at |-> Null,
     overall_ai_evaluation |-> Null]

ScreeningQuestion(session_id, original_question_id, order) ==
    [interview_session_id |-> session_id, original_question_id |-> original_question_id,
     order |-> order]

\* db.query(InterviewSession).filter(id == sid).first()
QueryInterview(sid) == IF sid \in DOMAIN isessions THEN Some(isessions[sid]) ELSE Null

IReject(op, sid, row, code, detail) ==
    /\ resp' = Response(op, sid, row, code, detail, NoBody)
    /\ UNCHANGED <<now, tasks, isessions, questions, responses, revaluations>>

\* ------------------------------------------------- start_interview_session
start_interview_session(cand, job, num_questions) ==
    /\ IF cand \notin CandidateProfileIds
       THEN IReject("istart", 0, Null, 404, "Candidate profile not found")
       ELSE IF job \notin JobDescriptionIds
       THEN IReject("istart", 0, Null, 404, "Job description not found")
       ELSE LET sid == Len(isessions) + 1
                found == SubSeq(InterviewQuestions[job], 1,
                                Min(num_questions, Len(InterviewQuestions[job])))
            IN  /\ Len(isessions) < MaxInterviews
                \* the session row is committed before the questions are fetched
                /\ isessions' = Append(isessions, InterviewSession(cand, job))
                /\ IF found = <<>>
                   THEN /\ resp' = Response("istart", sid, Null, 400,
                                            "No interview questions found for this job description.",
                                            NoBody)
                        /\ UNCHANGED questions
                   ELSE /\ questions' = questions \o
                              [i \in 1..Len(found) |-> ScreeningQuestion(sid, found[i], i)]
                        /\ resp' = Response("istart", sid, Null, 201, "",
                                            [NoBody EXCEPT !.status = "in_progress"])
                /\ UNCHANGED <<now, tasks, responses, revaluations>>
    /\ UNCHANGED <<cvars, xvars, avars>>

\* ------------------------------------------------ submit_candidate_response
\* not session or session.status != InterviewStatus.in_progress
InterviewMissing(row) == IsNull(row)
InterviewInactive(row) == IsNull(row) \/ (~IsNull(row) /\ Val(row).status # "in_progress")

\* candidate_responses without the unique index
NoUniqueScreeningQuestionId(question_id) == TRUE

\* UNIQUE (screening_question_id) of candidate_responses
UniqueScreeningQuestionId(question_id) ==
    \A i \in DOMAIN responses : responses[i].screening_question_id # question_id

CandidateResponse(question_id) ==
    [screening_question_id |-> question_id, response_text |-> Null,
     processing_status |-> "pending", processing_error |-> Null]

\* whether a submit would reach the insert and the dispatch
SubmitWouldInsert(sid, question_id) ==
    /\ ~InterviewInactive(QueryInterview(sid))
    /\ question_id \in DOMAIN questions
    /\ questions[question_id].interview_session_id = sid
    /\ UniqueScreeningQuestionId(question_id)

\* uploaded: whether upload_file returned the url of the stored recording
submit_candidate_response(sid, question_id, uploaded) ==
    /\ (uploaded /\ SubmitWouldInsert(sid, question_id)) => Len(tasks) < MaxTasks
    /\ LET row == QueryInterview(sid)
       IN  IF InterviewInactive(row)
           THEN IReject("isubmit", sid, row, 404, "Active interview session not found")
           ELSE IF ~(question_id \in DOMAIN questions
                     /\ questions[question_id].interview_session_id = sid)
           THEN IReject("isubmit", sid, row, 404, "Screening question not found in this session")
           ELSE IF ~uploaded
           THEN IReject("isubmit", sid, row, 500, "upload failed")
           ELSE IF ~UniqueScreeningQuestionId(question_id)
           THEN \* the commit raises IntegrityError, which nothing catches
                IReject("isubmit", sid, row, 500, "IntegrityError")
           ELSE /\ responses' = Append(responses, CandidateResponse(question_id))
                /\ tasks' = Append(tasks, Task("process", Len(responses) + 1))
                /\ resp' = Response("isubmit", sid, row, 200, "", NoBody)
                /\ UNCHANGED <<now, isessions, questions, revaluations>>
    /\ UNCHANGED <<cvars, xvars, avars>>

\* --------------------------------------------------- end_interview_session
end_interview_session(sid) ==
    /\ sid \in DOMAIN isessions => Len(tasks) < MaxTasks
    /\ LET row == QueryInterview(sid)
       IN  IF InterviewMissing(row)
           THEN IReject("iend", sid, row, 404, "Interview session not found")
           ELSE /\ isessions' = [isessions EXCEPT ![sid].status = "completed",
                                                  ![sid].ended_at = Some(now)]
                /\ tasks' = Append(tasks, Task("isummary", sid))
                /\ resp' = Response("iend", sid, row, 200, "",
                                    [NoBody EXCEPT !.status = isessions'[sid].status])
                /\ UNCHANGED <<now, questions, responses, revaluations>>
    /\ UNCHANGED <<cvars, xvars, avars>>

\* ------------------------------------------------------ get_final_evaluation
\* "not x" of Python for an optional dict: None or the empty dict
FalsyDict(o) == IsNull(o) \/ DOMAIN Val(o) = {}

get_final_evaluation(sid) ==
    /\ LET row == QueryInterview(sid)
           r(code, detail, body) == Response("iread", sid, row, code, detail, body)
       IN  IF IsNull(row)
           THEN resp' = r(404, "Interview session not found", NoBody)
           ELSE IF Val(row).status # "completed"
           THEN resp' = r(200, "", [NoBody EXCEPT !.status = "Interview not completed yet."])
           ELSE IF FalsyDict(Val(row).overall_ai_evaluation)
           THEN resp' = r(200, "", [NoBody EXCEPT !.status =
                        "Evaluation is still being processed. Please check back later."])
           ELSE resp' = r(200, "", [NoBody EXCEPT !.evaluation = Val(row).overall_ai_evaluation])
    /\ UNCHANGED <<now, tasks, isessions, questions, responses, revaluations>>
    /\ UNCHANGED <<cvars, xvars, avars>>

\* ------------------------------------------------ process_candidate_response
ResponseEvaluationColumns == {"relevance_score", "clarity_score", "sentiment_score",
                              "confidence_score", "keyword_matches", "ai_feedback"}

\* ResponseEvaluation(candidate_response_id=..., **eval_data)
ResponseEvaluation(response_id, eval_data) ==
    [c \in ResponseEvaluationColumns |-> Get(eval_data, c)]
        @@ [candidate_response_id |-> response_id]

\* UNIQUE (candidate_response_id) of response_evaluations
UniqueCandidateResponseId(response_id) ==
    \A i \in DOMAIN revaluations : revaluations[i].candidate_response_id # response_id

\* up to the await of the model call: processing and the transcription
\* are committed
process_start_untranscribed(t) ==
    /\ t \in DOMAIN tasks
    /\ tasks[t].kind = "process" /\ tasks[t].pc = "queued"
    /\ LET response_id == tasks[t].id
       IN  IF response_id \notin DOMAIN responses
           THEN SetTask(t, "done", "not found") /\ UNCHANGED responses
           ELSE /\ responses' = [responses EXCEPT
                                   ![response_id].processing_status = "processing"]
                /\ SetTask(t, "awaiting", "")
    /\ UNCHANGED <<now, resp, isessions, questions, revaluations>>
    /\ UNCHANGED <<cvars, xvars, avars>>

process_start(t) ==
    /\ t \in DOMAIN tasks
    /\ tasks[t].kind = "process" /\ tasks[t].pc = "queued"
    /\ LET response_id == tasks[t].id
       IN  IF response_id \notin DOMAIN responses
           THEN SetTask(t, "done", "not found") /\ UNCHANGED responses
           ELSE /\ responses' = [responses EXCEPT
                                   ![response_id].processing_status = "processing",
                                   ![response_id].response_text = Some("transcription")]
                /\ SetTask(t, "awaiting", "")
    /\ UNCHANGED <<now, resp, isessions, questions, revaluations>>
    /\ UNCHANGED <<cvars, xvars, avars>>

\* response_record.processing_status = failed; processing_error = ...; commit
MarkFailed(response_id, error) ==
    responses' = [responses EXCEPT ![response_id].processing_status = "failed",
                                   ![response_id].processing_error = Some(error)]

\* from the reply to the end of the function
process_candidate_response(t, reply) ==
    /\ t \in DOMAIN tasks
    /\ tasks[t].kind = "process" /\ tasks[t].pc = "awaiting"
    /\ LET parsed == ExtractJson(reply.text)
           response_id == tasks[t].id
       IN  IF reply.raises
           THEN /\ MarkFailed(response_id, "model error")
                /\ SetTask(t, "done", "model error") /\ UNCHANGED revaluations
           ELSE IF ~parsed.ok
           THEN /\ MarkFailed(response_id, "Failed to parse AI evaluation.")
                /\ SetTask(t, "done", "parse error") /\ UNCHANGED revaluations
           ELSE IF ~(DOMAIN parsed.data \subseteq ResponseEvaluationColumns)
           THEN /\ MarkFailed(response_id, "type error")
                /\ SetTask(t, "done", "type error") /\ UNCHANGED revaluations
           ELSE IF ~UniqueCandidateResponseId(response_id)
           THEN \* the commit raises IntegrityError and rolls back; the commit
                \* of the handler of Exception raises again on the same session
                /\ SetTask(t, "done", "escaped")
                /\ UNCHANGED <<responses, revaluations>>
           ELSE /\ revaluations' = Append(revaluations,
                                          ResponseEvaluation(response_id, parsed.data))
                /\ responses' = [responses EXCEPT ![response_id].processing_status = "completed"]
                /\ SetTask(t, "done", "ok")
    /\ UNCHANGED <<now, resp, isessions, questions>>
    /\ UNCHANGED <<cvars, xvars, avars>>

\* ------------------------------------------ generate_final_interview_summary
\* session.screening_questions
QuestionsOf(sid) == {q \in DOMAIN questions : questions[q].interview_session_id = sid}

ResponseOf(q) == {r \in DOMAIN responses : responses[r].screening_question_id = q}

\* full_interview_data: one item for each question of the session, with the
\* response if there is one and its evaluation if there is one
InterviewData(sid) ==
    [q \in QuestionsOf(sid) |->
        [response |-> ResponseOf(q),
         evaluation |-> {r \in ResponseOf(q) :
                           \E i \in DOMAIN revaluations :
                               revaluations[i].candidate_response_id = r}]]

\* up to the await of the model call.  client_ok: whether
\* get_gemini_client(), called outside the try block, returned a client
\* (GeminiClient.__init__ raises ValueError without an API key)
isummary_start(t, client_ok) ==
    /\ t \in DOMAIN tasks
    /\ tasks[t].kind = "isummary" /\ tasks[t].pc = "queued"
    /\ LET sid == tasks[t].id
       IN  IF sid \notin DOMAIN isessions \/ isessions[sid].status # "completed"
           THEN SetTask(t, "done", "aborted")
           ELSE IF QuestionsOf(sid) = {}
           THEN SetTask(t, "done", "no data")
           ELSE IF ~client_ok
           THEN SetTask(t, "done", "escaped")
           ELSE SendPrompt(t, [full_interview_data |-> InterviewData(sid)])
    /\ UNCHANGED <<now, resp, isessions, questions, responses, revaluations>>
    /\ UNCHANGED <<cvars, xvars, avars>>

generate_final_interview_summary(t, reply) ==
    /\ t \in DOMAIN tasks
    /\ tasks[t].kind = "isummary" /\ tasks[t].pc = "awaiting"
    /\ LET parsed == ExtractJson(reply.text)
           sid == tasks[t].id
       IN  IF reply.raises
           THEN SetTask(t, "done", "model error") /\ UNCHANGED isessions
           ELSE IF ~parsed.ok
           THEN SetTask(t, "done", "parse error") /\ UNCHANGED isessions
           ELSE /\ isessions' = [isessions EXCEPT ![sid].overall_ai_evaluation = Some(parsed.data)]
                /\ SetTask(t, "done", "ok")
    /\ UNCHANGED <<now, resp, questions, responses, revaluations>>
    /\ UNCHANGED <<cvars, xvars, avars>>

InterviewRequests ==
    \/ \E cand \in ReqCandidateIds, job \in ReqJobIds, n \in ReqNumQuestions :
          start_interview_session(cand, job, n)
    \/ \E sid \in ReqInterviewIds, q \in ReqQuestionIds, uploaded \in BOOLEAN :
          submit_candidate_response(sid, q, uploaded)
    \/ \E sid \in ReqInterviewIds : end_interview_session(sid)
    \/ \E sid \in ReqInterviewIds : get_final_evaluation(sid)

InterviewBackground ==
    \/ \E t \in 1..MaxTasks : process_start(t)
    \/ \E t \in 1..MaxTasks, reply \in GeminiOutcomes : process_candidate_response(t, reply)
    \/ \E t \in 1..MaxTasks, client_ok \in BOOLEAN : isummary_start(t, client_ok)
    \/ \E t \in 1..MaxTasks, reply \in GeminiOutcomes : generate_final_interview_summary(t, reply)

NextInterview ==
    \/ Tick
    \/ InterviewRequests
    \/ InterviewBackground

SpecInterview == Init /\ [][NextInterview]_vars

\* ============================================================= reruns
\* evaluate_submission_with_ai(submission_id, db) run once more for some
\* submission id (manual reprocessing of a submission)
rerun_evaluation(submission_id) ==
    /\ Len(tasks) < MaxTasks
    /\ tasks' = Append(tasks, Task("eval", submission_id))
    /\ UNCHANGED <<now, sessions, submissions, evaluations, handlers, resp, accepted>>
    /\ UNCHANGED <<ivars, xvars, avars>>

\* process_candidate_response(response_id, db) run once more for some
\* response id
rerun_processing(response_id) ==
    /\ Len(tasks) < MaxTasks
    /\ tasks' = Append(tasks, Task("process", response_id))
    /\ UNCHANGED <<now, resp, isessions, questions, responses, revaluations>>
    /\ UNCHANGED <<cvars, xvars, avars>>

\* the submissions of both kinds of session and the tasks that evaluate
\* them, each of which may run again
NextRerun ==
    \/ \E cand \in ReqCandidateIds, job \in ReqJobIds : create_test_session(cand, job)
    \/ \E sid \in ReqSessionIds : start_test_session(sid)
    \/ \E sid \in ReqSessionIds : end_test_session(sid)
    \/ \E sid \in ReqSessionIds, c \in ReqChallengeIds, code \in Codes : submit_code(sid, c, code)
    \/ Background
    \/ \E submission_id \in 1..(MaxSubs + 1) : rerun_evaluation(submission_id)
    \/ InterviewRequests
    \/ InterviewBackground
    \/ \E response_id \in ReqQuestionIds : rerun_processing(response_id)

SpecRerun == Init /\ [][NextRerun]_vars

\* ============================================================ extraction
\* What each function that parses a reply makes of the text, for every
\* text of at most MaxTextLen tokens.
Tokens == {LB, RB, WS, Prose, KV("a", 1), Key("k"), Value, LBracket, RBracket}
Texts == UNION {[1..n -> Tokens] : n \in 0..MaxTextLen}

\* the functions that slice from the first "{" to the last "}" and decode
SlicingSites == {"evaluate_submission_with_ai", "generate_final_test_summary",
                 "process_candidate_response", "generate_final_interview_summary"}

\* all the functions that look for braces
BraceSites == SlicingSites \cup {"generate_job_description"}

\* the decoded value is used as a dict (**eval_data, summary_data.get):
\* JSONDecodeError is the parse failure, a value that is not a dict makes
\* the use raise TypeError or AttributeError
Extracted(site, parsed) ==
    [site |-> site,
     outcome |-> IF ~parsed.ok THEN "parse failure"
                 ELSE IF parsed.type = "dict" THEN "decoded"
                 ELSE "other error",
     type |-> parsed.type,
     value |-> parsed.data]

\* generate_interview_questions iterates over the decoded value and calls
\* q_data.get on each element: the elements of a list must be dicts, and
\* iterating over a dict yields its keys, which are strings
ExtractedQuestions(parsed) ==
    [site |-> "generate_interview_questions",
     outcome |-> IF ~parsed.ok THEN "parse failure"
                 ELSE IF parsed.type = "list"
                         /\ \A e \in DOMAIN parsed.data : parsed.data[e].type = "dict"
                 THEN "decoded"
                 ELSE IF parsed.type = "dict" /\ DOMAIN parsed.data = {}
                 THEN "decoded"
                 ELSE "other error",
     type |-> parsed.type,
     value |-> parsed.data]

parse_reply(site) ==
    /\ extracted' = Extracted(site, ExtractJson(ai_response_text))
    /\ UNCHANGED <<now, tasks, resp, ai_response_text>>
    /\ UNCHANGED <<cvars, ivars, avars>>

generate_job_description ==
    /\ extracted' = Extracted("generate_job_description", ExtractJsonOrWhole(ai_response_text))
    /\ UNCHANGED <<now, tasks, resp, ai_response_text>>
    /\ UNCHANGED <<cvars, ivars, avars>>

generate_interview_questions ==
    /\ extracted' = ExtractedQuestions(ExtractJsonArrayOrWhole(ai_response_text))
    /\ UNCHANGED <<now, tasks, resp, ai_response_text>>
    /\ UNCHANGED <<cvars, ivars, avars>>

InitExtractor ==
    /\ now = 0 /\ tasks = <<>> /\ resp = NoResp
    /\ sessions = <<>> /\ submissions = <<>> /\ evaluations = <<>>
    /\ handlers = [h \in Handlers |-> IdleHandler]
    /\ accepted = [s \in 1..MaxSessions |-> [window_focus_changes |-> 0, paste_count |-> 0]]
    /\ isessions = <<>> /\ questions = <<>> /\ responses = <<>> /\ revaluations = <<>>
    /\ ai_response_text \in Texts
    /\ extracted = NotExtracted
    /\ suspicious_sessions = <<>>
    /\ flag_call = NoFlagCall

NextExtractor ==
    \/ \E site \in SlicingSites : parse_reply(site)
    \/ generate_job_description
    \/ generate_interview_questions

SpecExtractor == InitExtractor /\ [][NextExtractor]_vars

\* ========================================================= anti-cheat
\* app/services/anti_cheat_service.py: the registry of monitored sessions
\* kept in the memory of the process.  Its methods are synchronous and are
\* called on the event loop, so each call is one step.
MonitorIds == {"s1"}
ReqMonitorIds == {"s1", "s2"}
ActivityTypes == {"high_code_similarity", "external_site_access_github",
                  "rapid_mouse_clicks", "external_site_access_leetcode"}

\* self.suspicious_sessions.get(session_id)
Registered(session_id) == session_id \in DOMAIN suspicious_sessions

\* the part of monitor_coding_session before the monitoring tasks: a fresh
\* session_data replaces whatever the registry held for the id
monitor_coding_session(session_id) ==
    /\ suspicious_sessions' =
          [s \in DOMAIN suspicious_sessions \cup {session_id} |->
              IF s = session_id THEN [risk_score |-> 0, flags |-> <<>>]
                                ELSE suspicious_sessions[s]]
    /\ UNCHANGED <<now, tasks, resp, flag_call>>
    /\ UNCHANGED <<cvars, ivars, xvars>>

_get_activity_severity(activity_type) ==
    IF activity_type \in {"external_site_access_github", "external_site_access_stackoverflow",
                          "high_code_similarity", "excessive_paste_operations"}
    THEN "high"
    ELSE IF activity_type \in {"frequent_focus_changes", "rapid_mouse_clicks",
                               "suspicious_timing_gap"}
    THEN "medium"
    ELSE "low"

risk_scores ==
    [external_site_access_github |-> 20, external_site_access_stackoverflow |-> 15,
     high_code_similarity |-> 25, excessive_paste_operations |-> 10,
     frequent_focus_changes |-> 8, rapid_mouse_clicks |-> 5, suspicious_timing_gap |-> 12]

\* risk_scores.get(activity_type, 5)
_get_activity_risk_score(activity_type) ==
    IF activity_type \in DOMAIN risk_scores THEN risk_scores[activity_type] ELSE 5

\* if session["risk_score"] >= 50
SendsAlertFrom50(risk_score) == risk_score >= 50

\* if session["risk_score"] > 50
SendsAlert(risk_score) == risk_score > 50

_flag_suspicious_activity(session_id, activity_type) ==
    /\ Registered(session_id) => Len(suspicious_sessions[session_id].flags) < MaxFlags
    /\ IF ~Registered(session_id)
       THEN /\ UNCHANGED suspicious_sessions
            /\ flag_call' = [session_id |-> session_id, activity_type |-> activity_type,
                             n |-> 1 - flag_call.n, alerted |-> FALSE]
       ELSE LET session == suspicious_sessions[session_id]
                flag == [type |-> activity_type,
                         severity |-> _get_activity_severity(activity_type)]
                risk_score == session.risk_score + _get_activity_risk_score(activity_type)
            IN  /\ suspicious_sessions' =
                      [suspicious_sessions EXCEPT
                          ![session_id] = [risk_score |-> risk_score,
                                           flags |-> Append(session.flags, flag)]]
                /\ flag_call' = [session_id |-> session_id, activity_type |-> activity_type,
                                 n |-> 1 - flag_call.n, alerted |-> SendsAlert(risk_score)]
    /\ UNCHANGED <<now, tasks, resp>>
    /\ UNCHANGED <<cvars, ivars, xvars>>

NextAntiCheat ==
    \/ \E session_id \in MonitorIds : monitor_coding_session(session_id)
    \/ \E session_id \in ReqMonitorIds, activity_type \in ActivityTypes :
          _flag_suspicious_activity(session_id, activity_type)

SpecAntiCheat == Init /\ [][NextAntiCheat]_vars

\* =================================================================== claims

\* C1: the status of a session changes only along scheduled->started,
\* started->completed, scheduled->expired or started->expired; a completed
\* or expired session never changes status again.
LegalTransitions ==
    { <<"scheduled", "started">>, <<"started", "completed">>,
      <<"scheduled", "expired">>, <<"started", "expired">> }

C1_OnlyLegalTransitions ==
    [][\A s \in DOMAIN sessions :
          sessions'[s].status # sessions[s].status
              => <<sessions[s].status, sessions'[s].status>> \in LegalTransitions]_vars

\* C2: each submission (coding submission or interview response) has at
\* most one evaluation however often the evaluation task runs for it, and
\* an evaluation row, once inserted, is never replaced or altered by a
\* later run.
EvaluationsFor(submission_id) ==
    {i \in DOMAIN evaluations : evaluations[i].submission_id = submission_id}

ResponseEvaluationsFor(response_id) ==
    {i \in DOMAIN revaluations : revaluations[i].candidate_response_id = response_id}

C2_AtMostOneEvaluation ==
    /\ [](\A sub \in DOMAIN submissions : Cardinality(EvaluationsFor(sub)) <= 1)
    /\ [](\A r \in DOMAIN responses : Cardinality(ResponseEvaluationsFor(r)) <= 1)
    /\ [][/\ \A i \in DOMAIN evaluations :
                i \in DOMAIN evaluations' /\ evaluations'[i] = evaluations[i]
          /\ \A i \in DOMAIN revaluations :
                i \in DOMAIN revaluations' /\ revaluations'[i] = revaluations[i]]_vars

\* two runs for one submission have ended, the first inserted the evaluation
C2_Witness ==
    \E t1, t2 \in DOMAIN tasks :
        /\ t1 # t2
        /\ tasks[t1].kind = "eval" /\ tasks[t2].kind = "eval"
        /\ tasks[t1].id = tasks[t2].id
        /\ tasks[t1].outcome = "ok" /\ tasks[t2].outcome = "integrity error"
        /\ Cardinality(EvaluationsFor(tasks[t1].id)) = 1

\* C3: when every accepted event has been handled, each counter equals the
\* number of accepted events of its type (no lost update).
C3_NoLostUpdate ==
    InFlight({"event"}) = 0 =>
        \A s \in DOMAIN sessions :
            /\ sessions[s].paste_count = accepted[s].paste_count
            /\ sessions[s].window_focus_changes = accepted[s].window_focus_changes

\* C4: end on a session that is already completed succeeds and reports the
\* status completed.
C4_EndIdempotent ==
    (resp.op = "end" /\ resp.seen = "completed") =>
        (resp.code = 200 /\ resp.body.status = "completed")

\* C5: for every session the summary task is dispatched at most once.
SummaryDispatches(s) ==
    Cardinality({t \in DOMAIN tasks : tasks[t].kind = "summary" /\ tasks[t].id = s})

C5_SummarizerOnce == \A s \in DOMAIN sessions : SummaryDispatches(s) <= 1

\* C6: start on a session whose status is not scheduled answers 400
\* (already started or completed) and leaves the session rows as they were.
C6_StartRejected ==
    [][(resp' # resp /\ resp'.op = "start"
            /\ resp'.seen \in {"started", "completed", "expired"})
          => (/\ resp'.code = 400
              /\ resp'.detail = "Test session has already been started or completed."
              /\ sessions' = sessions)]_vars

\* start was called on a started session at a later time than its start
C6_Witness ==
    /\ resp.op = "start" /\ resp.seen = "started" /\ resp.code = 400
    /\ resp.sid \in DOMAIN sessions
    /\ sessions[resp.sid].started_at # Some(now)

\* C7: a submit whose session is not started (not in_progress for an
\* interview) is rejected, creates no submission and dispatches nothing; a
\* submission is created only by a submit that found its session started
\* (in_progress).
C7_SubmitOnlyWhileStarted ==
    [][/\ (resp' # resp /\ resp'.op = "submit" /\ resp'.seen # "started")
            => (resp'.code = 403 /\ submissions' = submissions /\ tasks' = tasks)
       /\ submissions' # submissions
            => (resp'.op = "submit" /\ resp'.seen = "started" /\ resp'.code = 200)
       /\ (resp' # resp /\ resp'.op = "isubmit" /\ resp'.seen # "in_progress")
            => (resp'.code = 404 /\ responses' = responses /\ tasks' = tasks)
       /\ responses' # responses /\ Len(responses') > Len(responses)
            => (resp'.op = "isubmit" /\ resp'.seen = "in_progress" /\ resp'.code = 200)]_vars

\* a submit was rejected for a completed session
C7_Witness ==
    /\ resp.op = "submit" /\ resp.seen = "completed" /\ resp.code = 403
    /\ Len(submissions) > 0

\* C8: after expires-at of a started session no submission is created for
\* it and none of its counters is incremented.
C8_LazyExpiry ==
    [][\A s \in DOMAIN sessions :
          (sessions[s].status = "started" /\ now > sessions[s].expires_at)
              => /\ \A i \in DOMAIN submissions' :
                        submissions'[i].test_session_id = s => i \in DOMAIN submissions
                 /\ sessions'[s].paste_count = sessions[s].paste_count
                 /\ sessions'[s].window_focus_changes = sessions[s].window_focus_changes]_vars

\* C9: an event of an unrecognized type sent to a started session answers
\* 400 and leaves both counters (every session row) unchanged.
RecognizedEventTypes == {"focus_change", "paste"}

C9_UnknownEventRejected ==
    [][(resp' # resp /\ resp'.op = "event" /\ resp'.seen = "started"
            /\ resp'.etype \notin RecognizedEventTypes)
          => (resp'.code = 400 /\ sessions' = sessions)]_vars

\* an unrecognized event was rejected on a session whose counters are not zero
C9_Witness ==
    /\ resp.op = "event" /\ resp.etype = "teleport" /\ resp.seen = "started"
    /\ resp.code = 400
    /\ resp.sid \in DOMAIN sessions
    /\ sessions[resp.sid].paste_count + sessions[resp.sid].window_focus_changes > 0

\* C10: an event for a session that is not started, or does not exist,
\* answers 403 whatever its type, and no session row changes.
C10_InactiveEventRejected ==
    [][(resp' # resp /\ resp'.op = "event" /\ resp'.seen # "started")
          => (resp'.code = 403 /\ sessions' = sessions)]_vars

\* an unrecognized event was sent to a completed session and answered 403
C10_Witness ==
    /\ resp.op = "event" /\ resp.etype = "teleport" /\ resp.seen = "completed"
    /\ resp.code = 403


\* C11: the persisted value of each anti-cheat counter never decreases from
\* one state to the next, also when event handlers of one session
\* interleave.
C11_CountersNeverDecrease ==
    [][\A s \in DOMAIN sessions :
          /\ sessions'[s].window_focus_changes >= sessions[s].window_focus_changes
          /\ sessions'[s].paste_count >= sessions[s].paste_count]_vars

\* C12: the step that accepts an event adds exactly 1 to the counter of its
\* type and changes nothing else: no other column of any session, no
\* submission, no evaluation, no background task.
CounterColumns == {"window_focus_changes", "paste_count"}

C12_EventFrame ==
    [][\A s \in DOMAIN accepted : \A column \in CounterColumns :
          accepted'[s][column] # accepted[s][column]
              => /\ s \in DOMAIN sessions
                 /\ sessions' = [sessions EXCEPT ![s][column] = @ + 1]
                 /\ tasks' = tasks
                 /\ submissions' = submissions
                 /\ evaluations' = evaluations
                 /\ ivars' = ivars]_vars

\* C13: a summary run for a session that has no evaluation yet makes no
\* model call and writes no summary field (coding-test and interview
\* sessions alike).
InterviewEvaluations(sid) ==
    {i \in DOMAIN revaluations :
        \E r \in DOMAIN responses :
            /\ revaluations[i].candidate_response_id = r
            /\ responses[r].screening_question_id \in QuestionsOf(sid)}

C13_NoSummaryWithoutEvaluations ==
    [][\A t \in DOMAIN tasks :
          /\ (tasks[t].kind = "summary" /\ SubmissionEvaluations(tasks[t].id) = {})
                => /\ ~(tasks[t].pc = "queued" /\ tasks'[t].pc = "awaiting")
                   /\ (tasks[t].pc = "awaiting" /\ tasks'[t].pc = "done"
                         => sessions' = sessions)
          /\ (tasks[t].kind = "isummary" /\ InterviewEvaluations(tasks[t].id) = {})
                => /\ ~(tasks[t].pc = "queued" /\ tasks'[t].pc = "awaiting")
                   /\ (tasks[t].pc = "awaiting" /\ tasks'[t].pc = "done"
                         => isessions' = isessions)]_vars

\* C14: once the summary of a session is written (overall_score or
\* final_evaluation_summary, overall_ai_evaluation for an interview) it
\* never changes, and a summary run for such a session makes no model call.
HasSummary(s) ==
    ~IsNull(sessions[s].overall_score) \/ ~IsNull(sessions[s].final_evaluation_summary)

C14_SummaryWrittenOnce ==
    [][/\ \A s \in DOMAIN sessions :
            HasSummary(s)
                => /\ sessions'[s].overall_score = sessions[s].overall_score
                   /\ sessions'[s].final_evaluation_summary = sessions[s].final_evaluation_summary
                   /\ \A t \in DOMAIN tasks :
                         (tasks[t].kind = "summary" /\ tasks[t].id = s)
                             => ~(tasks[t].pc = "queued" /\ tasks'[t].pc = "awaiting")
       /\ \A s \in DOMAIN isessions :
            ~IsNull(isessions[s].overall_ai_evaluation)
                => /\ isessions'[s].overall_ai_evaluation = isessions[s].overall_ai_evaluation
                   /\ \A t \in DOMAIN tasks :
                         (tasks[t].kind = "isummary" /\ tasks[t].id = s)
                             => ~(tasks[t].pc = "queued" /\ tasks'[t].pc = "awaiting")]_vars

\* C15: in every state a session whose summary is written (overall_score or
\* final_evaluation_summary, overall_ai_evaluation for an interview) has the
\* status completed.
C15_SummaryOnlyWhenCompleted ==
    /\ \A s \in DOMAIN sessions : HasSummary(s) => sessions[s].status = "completed"
    /\ \A s \in DOMAIN isessions :
          ~IsNull(isessions[s].overall_ai_evaluation) => isessions[s].status = "completed"

\* C16: when the reply for a submission cannot be parsed, the task creates
\* no evaluation and records the failure on the submission: the row of a
\* spoken response gets processing_status failed and the parse error, the
\* row of a code submission is changed to carry the failure.
ParseFailed(t, kind) ==
    /\ tasks[t].kind = kind
    /\ tasks[t].pc = "awaiting"
    /\ tasks'[t].pc = "done" /\ tasks'[t].outcome = "parse error"

C16_ParseFailureRecorded ==
    [][\A t \in DOMAIN tasks :
          /\ ParseFailed(t, "eval")
                => /\ evaluations' = evaluations
                   /\ submissions'[tasks[t].id] # submissions[tasks[t].id]
          /\ ParseFailed(t, "process")
                => /\ revaluations' = revaluations
                   /\ responses'[tasks[t].id].processing_status = "failed"
                   /\ responses'[tasks[t].id].processing_error
                         = Some("Failed to parse AI evaluation.")]_vars

\* C17: no run of a background task ends by propagating an exception to
\* the dispatcher, whatever the model call and the database write do.
C17_NoEscape == \A t \in DOMAIN tasks : tasks[t].outcome # "escaped"

\* C18: once a summary run for a completed session has ended in a model
\* or parse failure and no summary is stored, a read of the evaluation
\* does not report that the evaluation is still in progress.
SummaryFailed(kind, sid) ==
    \E t \in DOMAIN tasks :
        /\ tasks[t].kind = kind /\ tasks[t].id = sid
        /\ tasks[t].pc = "done"
        /\ tasks[t].outcome \in {"model error", "parse error"}

SummaryPending(kind, sid) ==
    \E t \in DOMAIN tasks : tasks[t].kind = kind /\ tasks[t].id = sid /\ tasks[t].pc # "done"

ReportsProcessing(r) ==
    \/ r.body.final_evaluation_summary =
          Some("Evaluation is still in progress. Please check back in a few moments.")
    \/ r.body.status = "Evaluation is still being processed. Please check back later."

C18_FailedIsNotProcessing ==
    [][/\ (/\ resp' # resp /\ resp'.op = "read" /\ resp'.code = 200
           /\ SummaryFailed("summary", resp'.sid) /\ ~SummaryPending("summary", resp'.sid))
            => ~ReportsProcessing(resp')
       /\ (/\ resp' # resp /\ resp'.op = "iread" /\ resp'.code = 200
           /\ SummaryFailed("isummary", resp'.sid) /\ ~SummaryPending("isummary", resp'.sid))
            => ~ReportsProcessing(resp')]_vars

\* C19: a read of the evaluation of a completed session whose summary is
\* still null succeeds with status completed, a still-in-progress text, a
\* null overall score and no per-item scores; it is never an error.
C19_PendingReadSucceeds ==
    [][/\ (/\ resp' # resp /\ resp'.op = "read" /\ resp'.seen = "completed"
           /\ ~HasSummary(resp'.sid))
            => /\ resp'.code = 200
               /\ resp'.body.status = "completed"
               /\ ReportsProcessing(resp')
               /\ IsNull(resp'.body.overall_score)
               /\ resp'.body.submissions = <<>>
       /\ (/\ resp' # resp /\ resp'.op = "iread" /\ resp'.seen = "completed"
           /\ IsNull(isessions[resp'.sid].overall_ai_evaluation))
            => /\ resp'.code = 200
               /\ resp'.body.status = "completed"
               /\ ReportsProcessing(resp')
               /\ IsNull(resp'.body.evaluation)]_vars

\* C20: with a session started (not ended), one submission for challenge 1
\* and its evaluation with correctness_score 90 stored, a read of the
\* evaluation succeeds, shows 90 for challenge 1 and an entry without
\* evaluation for every challenge of the job that has no submission.
ScoredSubmissions(sid, challenge_id, score) ==
    {i \in SubmissionsOf(sid) :
        /\ submissions[i].challenge_id = challenge_id
        /\ ~IsNull(EvaluationOf(i))
        /\ Val(EvaluationOf(i)).correctness_score = Some(score)}

SubmittedChallenges(sid) == {submissions[i].challenge_id : i \in SubmissionsOf(sid)}

C20_ReadShowsScoreWhileStarted ==
    [][(/\ resp' # resp /\ resp'.op = "read" /\ resp'.seen = "started"
        /\ ScoredSubmissions(resp'.sid, 1, 90) # {})
         => LET entries == resp'.body.submissions
                job == sessions[resp'.sid].job_description_id
            IN  /\ resp'.code = 200
                /\ \E i \in DOMAIN entries :
                      /\ entries[i].challenge_id = 1
                      /\ ~IsNull(entries[i].evaluation)
                      /\ Val(entries[i].evaluation).correctness_score = Some(90)
                /\ \A c \in ChallengesOf(job) \ SubmittedChallenges(resp'.sid) :
                      \E i \in DOMAIN entries :
                          entries[i].challenge_id = c /\ IsNull(entries[i].evaluation)]_vars

\* C21: a create that succeeds adds exactly one session, scheduled, with
\* null started_at, ended_at and summary, zero counters and expires_at =
\* now + the link validity; a create that names an absent candidate or job
\* answers 404 and adds no session; nothing else adds a session.
C21_CreateScheduledSession ==
    [][/\ (resp' # resp /\ resp'.op = "create" /\ resp'.code = 201)
            => /\ Len(sessions') = Len(sessions) + 1
               /\ SubSeq(sessions', 1, Len(sessions)) = sessions
               /\ resp'.sid = Len(sessions')
               /\ LET new == sessions'[Len(sessions')]
                  IN  /\ new.candidate_profile_id \in CandidateProfileIds
                      /\ new.job_description_id \in JobDescriptionIds
                      /\ new.status = "scheduled"
                      /\ IsNull(new.started_at) /\ IsNull(new.ended_at)
                      /\ IsNull(new.overall_score) /\ IsNull(new.final_evaluation_summary)
                      /\ new.window_focus_changes = 0 /\ new.paste_count = 0
                      /\ new.expires_at = now + LinkValidity
       /\ (resp' # resp /\ resp'.op = "create" /\ resp'.code # 201)
            => (resp'.code = 404 /\ sessions' = sessions)
       /\ Len(sessions') # Len(sessions)
            => (resp'.op = "create" /\ resp'.code = 201)]_vars

\* a session was created after the clock had advanced
C21_Witness ==
    /\ resp.op = "create" /\ resp.code = 201
    /\ Len(sessions) = 1 /\ sessions[1].expires_at > LinkValidity

\* C22: a start that fails because the job has no items leaves the tables
\* unchanged: a coding-test session stays as it was, and no interview
\* session or screening question is inserted.
C22_NoItemsLeavesStoreUnchanged ==
    [][/\ (/\ resp' # resp /\ resp'.op = "start"
           /\ resp'.detail = "No challenges found for this job description.")
            => (resp'.code = 400 /\ sessions' = sessions)
       /\ (/\ resp' # resp /\ resp'.op = "istart"
           /\ resp'.detail = "No interview questions found for this job description.")
            => (resp'.code = 400 /\ isessions' = isessions /\ questions' = questions)]_vars

\* C23: an end of a session that was not completed commits completed,
\* dispatches the summary task and answers with status completed, the
\* in-progress text and no score; the model call of the summary task
\* happens neither before the answer nor before the commit.
ModelCalled(kind, sid) ==
    \E t \in DOMAIN tasks : tasks[t].kind = kind /\ tasks[t].id = sid /\ tasks[t].pc # "queued"

C24_SubmissionStepsOrdered ==
    [][/\ \A t \in DOMAIN tasks :
            (tasks[t].pc = "queued" /\ tasks'[t].pc = "awaiting")
                => /\ tasks[t].kind = "eval"
                        => /\ tasks[t].id \in DOMAIN submissions
                           /\ submissions'[tasks[t].id].execution_result =
                                 execute_code_in_sandbox(
                                     submissions[tasks[t].id].code,
                                     ChallengeTests[submissions[tasks[t].id].challenge_id])
                   /\ tasks[t].kind = "process"
                        => /\ tasks[t].id \in DOMAIN responses
                           /\ ~IsNull(responses'[tasks[t].id].response_text)
       /\ (resp' # resp /\ resp'.op = "submit" /\ resp'.code = 200)
            => /\ Len(submissions') = Len(submissions) + 1
               /\ tasks' = Append(tasks, Task("eval", Len(submissions')))
       /\ (resp' # resp /\ resp'.op = "isubmit" /\ resp'.code = 200)
            => /\ Len(responses') = Len(responses) + 1
               /\ tasks' = Append(tasks, Task("process", Len(responses')))]_vars

\* the second answer of an interview is evaluated while the first one,
\* submitted earlier, is still waiting for its task
C24_Witness ==
    /\ 1 \in DOMAIN responses /\ 2 \in DOMAIN responses
    /\ ResponseEvaluationsFor(2) # {}
    /\ ResponseEvaluationsFor(1) = {}
    /\ responses[1].processing_status = "pending"
    /\ ~IsNull(responses[2].response_text)


\* C25: the evaluation of a submission accepted while the session was
\* started is not cancelled by the end or the expiry of the session: a
\* queued run still sends its request, and a run that receives a usable
\* reply still stores its evaluation, whatever the status of the session
\* and however late it is.
SessionOver(sub_id) ==
    LET s == sessions[submissions[sub_id].test_session_id]
    IN  \/ s.status # "started"
        \/ now > s.expires_at

C25_RunOutlivesSession ==
    [][\A t \in DOMAIN tasks :
          (/\ tasks[t].kind = "eval" /\ tasks[t].id \in DOMAIN submissions
           /\ SessionOver(tasks[t].id))
             => /\ (tasks[t].pc = "queued" /\ tasks'[t].pc # "queued")
                     => tasks'[t].pc = "awaiting"
                /\ (tasks[t].pc = "awaiting" /\ tasks'[t].pc = "done")
                     => /\ tasks'[t].outcome \in
                              {"ok", "model error", "parse error", "type error", "integrity error"}
                        /\ (EvaluationsFor(tasks[t].id) = {} /\ tasks'[t].outcome = "ok")
                              => /\ Len(evaluations') = Len(evaluations) + 1
                                 /\ evaluations'[Len(evaluations')].submission_id = tasks[t].id
                                 /\ sessions' = sessions]_vars

\* the summary of the completed session was requested when the submission
\* had no evaluation yet, and the evaluation has been stored since
C25_Witness ==
    \E t \in DOMAIN tasks, u \in DOMAIN tasks :
        /\ tasks[t].kind = "eval" /\ tasks[t].pc = "done" /\ tasks[t].outcome = "ok"
        /\ tasks[t].id \in DOMAIN submissions
        /\ EvaluationsFor(tasks[t].id) # {}
        /\ tasks[u].kind = "summary" /\ ~IsNull(tasks[u].prompt)
        /\ tasks[u].id = submissions[tasks[t].id].test_session_id
        /\ tasks[t].id \notin Val(tasks[u].prompt).submission_evaluations
        /\ sessions[tasks[u].id].status = "completed"


\* C26: a dispatched task runs at most once and calls the model at most
\* once: it only moves forward (queued, awaiting the reply, done), a task
\* that is done, whatever its outcome, never changes again, and a task is
\* added only by an accepted submit (one for the submission it created) or
\* by the end that completes a session (one for that session).
C26_AtMostOnce ==
    [][/\ Len(tasks') >= Len(tasks)
       /\ \A t \in DOMAIN tasks :
            /\ tasks'[t].kind = tasks[t].kind /\ tasks'[t].id = tasks[t].id
            /\ tasks[t].pc = "done" => tasks'[t] = tasks[t]
            /\ tasks[t].pc = "awaiting"
                 => /\ tasks'[t].pc \in {"awaiting", "done"}
                    /\ tasks'[t].prompt = tasks[t].prompt
            /\ tasks[t].pc = "queued" => tasks'[t].pc \in {"queued", "awaiting", "done"}
       /\ Len(tasks') > Len(tasks)
            => LET d == tasks'[Len(tasks')]
               IN  /\ Len(tasks') = Len(tasks) + 1
                   /\ d.pc = "queued"
                   /\ resp'.code = 200
                   /\ \/ /\ resp'.op = "submit" /\ d.kind = "eval"
                         /\ Len(submissions') = Len(submissions) + 1
                         /\ d.id = Len(submissions')
                      \/ /\ resp'.op = "end" /\ d.kind = "summary"
                         /\ d.id = resp'.sid
                         /\ sessions[d.id].status # "completed"
                         /\ sessions'[d.id].status = "completed"
       /\ \A t \in DOMAIN tasks', u \in DOMAIN tasks' :
            (tasks'[t].kind = "eval" /\ tasks'[u].kind = "eval"
               /\ tasks'[t].id = tasks'[u].id) => t = u]_vars

\* the model call of an evaluation and the parse of the summary's reply
\* have both failed, and both tasks are done
C26_Witness ==
    \E t \in DOMAIN tasks, u \in DOMAIN tasks :
        /\ tasks[t].kind = "eval" /\ tasks[t].pc = "done" /\ tasks[t].outcome = "model error"
        /\ tasks[u].kind = "summary" /\ tasks[u].pc = "done" /\ tasks[u].outcome = "parse error"


\* C27: when the model call of a summary run raises or its reply cannot
\* be parsed, the run writes nothing: the row of the session is left as it
\* was, so a summary that was null stays null in all its fields, and the
\* session is still completed.
C27_FailedSummaryWritesNothing ==
    [][\A t \in DOMAIN tasks :
          (/\ tasks[t].pc = "awaiting" /\ tasks'[t].pc = "done"
           /\ tasks'[t].outcome \in {"model error", "parse error"})
             => /\ tasks[t].kind = "summary"
                     => /\ sessions' = sessions
                        /\ sessions'[tasks[t].id].status = "completed"
                        /\ IsNull(sessions'[tasks[t].id].overall_score)
                        /\ IsNull(sessions'[tasks[t].id].final_evaluation_summary)
                /\ tasks[t].kind = "isummary"
                     => /\ isessions' = isessions
                        /\ isessions'[tasks[t].id].status = "completed"
                        /\ IsNull(isessions[tasks[t].id].overall_ai_evaluation)
                              => IsNull(isessions'[tasks[t].id].overall_ai_evaluation)]_vars

\* the reply to the summary request of a coding session could not be
\* parsed and the model call of the summary of an interview raised
C27_Witness ==
    \E t \in DOMAIN tasks, u \in DOMAIN tasks :
        /\ tasks[t].kind = "summary" /\ tasks[t].pc = "done" /\ tasks[t].outcome = "parse error"
        /\ IsNull(sessions[tasks[t].id].final_evaluation_summary)
        /\ tasks[u].kind = "isummary" /\ tasks[u].pc = "done" /\ tasks[u].outcome = "model error"
        /\ IsNull(isessions[tasks[u].id].overall_ai_evaluation)


HasBrace(s) == \E i \in DOMAIN s : s[i].t \in {"{", "}"}

ValidObject(J) ==
    /\ Len(J) >= 2 /\ J[1].t = "{" /\ J[Len(J)].t = "}"
    /\ json_loads(J).ok

Compact(J) == SelectSeq(J, LAMBDA x : x.t # "ws")

C29_ExtractsEmbeddedObject ==
    extracted.site \in BraceSites
      => \A i \in 1..Len(ai_response_text) : \A j \in i..Len(ai_response_text) :
            LET prefix == SubSeq(ai_response_text, 1, i - 1)
                J == SubSeq(ai_response_text, i, j)
                suffix == SubSeq(ai_response_text, j + 1, Len(ai_response_text))
            IN  (ValidObject(J) /\ ~HasBrace(prefix) /\ ~HasBrace(suffix))
                  => /\ extracted.outcome = "decoded"
                     /\ extracted.value = json_loads(J).data
                     /\ extracted.value = ExtractJson(prefix \o Compact(J) \o suffix).data

\* a pretty-printed object after a line of prose has been decoded
C29_Witness ==
    /\ ai_response_text = <<Prose, LB, WS, KV("a", 1), RB>>
    /\ extracted.site = "process_candidate_response"
    /\ extracted.outcome = "decoded"
    /\ extracted.value = [x \in {"a"} |-> Some(1)]

\* C30: a reply with no opening brace, or with no closing brace after its
\* first opening brace, is a parse failure in every function that cuts an
\* object out of a reply: no value is decoded from it and no other error
\* is raised.
NoBracePair(text) ==
    \/ PyFind(text, "{") < 0
    \/ PyRFind(text, "}") < PyFind(text, "{")

C30_NoBracePairIsParseFailure ==
    (extracted.site \in BraceSites /\ NoBracePair(ai_response_text))
        => extracted.outcome = "parse failure"


\* C31: a reply that is a JSON array of objects, and nothing else, is
\* extracted as that array by the functions that evaluate a submission and
\* summarise a session: the slice runs from the opening bracket to the
\* closing bracket, and the result is not a parse failure.
ArrayOfObjects(text) ==
    /\ Len(text) >= 2 /\ text[1].t = "[" /\ text[Len(text)].t = "]"
    /\ json_loads(text).ok /\ json_loads(text).type = "list"
    /\ json_loads(text).data # <<>>
    /\ \A e \in DOMAIN json_loads(text).data : json_loads(text).data[e].type = "dict"

C31_ArrayReplyExtracted ==
    (extracted.site \in SlicingSites /\ ArrayOfObjects(ai_response_text))
        => /\ extracted.outcome # "parse failure"
           /\ extracted.type = "list"
           /\ extracted.value = json_loads(ai_response_text).data


\* C32: an evaluation is stored from a reply that is an object whose keys
\* are among the requested ones, and it holds, column by column, the value
\* the reply gives for that key and null where the reply has no such key:
\* no column is filled from another one or with a default.
FromReply(row, columns, data) ==
    /\ DOMAIN data \subseteq columns
    /\ \A c \in columns :
          row[c] = (IF c \in DOMAIN data THEN data[c] ELSE Null)

InRange(o, lo, hi) == IsNull(o) \/ (Val(o) >= lo /\ Val(o) <= hi)

ScoreColumns ==
    {"correctness_score", "efficiency_score", "style_score",
     "readability_score", "plagiarism_score"}

ResponseScoreColumns == {"relevance_score", "clarity_score", "confidence_score"}

C33_ScoresInRange ==
    [][/\ \A i \in DOMAIN evaluations' :
            \A c \in ScoreColumns : InRange(evaluations'[i][c], 0, 100)
       /\ \A i \in DOMAIN revaluations' :
            /\ \A c \in ResponseScoreColumns : InRange(revaluations'[i][c], 0, 100)
            /\ InRange(revaluations'[i].sentiment_score, 0 - 1, 1)
       /\ \A s \in DOMAIN sessions' : InRange(sessions'[s].overall_score, 0, 100)
       /\ \A i \in DOMAIN evaluations : evaluations'[i] = evaluations[i]
       /\ \A i \in DOMAIN revaluations : revaluations'[i] = revaluations[i]]_vars


\* C34: a start that succeeds finds the session scheduled and with at
\* least one challenge for its job, sets status started and started_at to
\* the current time, replaces expires_at by the current time plus the test
\* duration, so that started_at < expires_at, and leaves every other
\* column of the session as it was.
C34_StartSetsTimes ==
    [][(resp' # resp /\ resp'.op = "start" /\ resp'.code = 200)
          => LET sid == resp'.sid
             IN  /\ sessions[sid].status = "scheduled"
                 /\ ChallengesOf(sessions[sid].job_description_id) # {}
                 /\ sessions' = [sessions EXCEPT
                                   ![sid] = [sessions[sid] EXCEPT
                                               !.status = "started",
                                               !.started_at = Some(now),
                                               !.expires_at = now + TestDuration]]
                 /\ Val(sessions'[sid].started_at) < sessions'[sid].expires_at
                 /\ sessions'[sid].expires_at # sessions[sid].expires_at]_vars

\* a session started one hour after it was created
C34_Witness ==
    /\ resp.op = "start" /\ resp.code = 200
    /\ sessions[resp.sid].status = "started"
    /\ sessions[resp.sid].started_at = Some(1)
    /\ sessions[resp.sid].expires_at = 1 + TestDuration


\* C35: the challenge of every stored submission is one of the challenges
\* of the job of its session, and an accepted answer of an interview is
\* for a question of that interview: a submit that names a challenge or a
\* question of another session stores nothing.
C35_SubmissionItemOfItsSession ==
    [][/\ \A i \in DOMAIN submissions' :
            submissions'[i].challenge_id \in
                ChallengesOf(sessions'[submissions'[i].test_session_id].job_description_id)
       /\ (resp' # resp /\ resp'.op = "isubmit" /\ resp'.code = 200)
            => /\ Len(responses') = Len(responses) + 1
               /\ responses'[Len(responses')].screening_question_id \in QuestionsOf(resp'.sid)]_vars

\* runs of process_candidate_response dispatched for response i
ProcessRunsOf(i) == {t \in DOMAIN tasks : tasks[t].kind = "process" /\ tasks[t].id = i}

\* C36: every screening question has at most one candidate response; a submit
\* for a question that already has one is refused, stores no second response
\* and dispatches no processing run, so that every stored response has
\* exactly one processing run.
C36_OneResponsePerQuestion ==
    [][/\ \A q \in ReqQuestionIds :
            Cardinality({i \in DOMAIN responses' :
                            responses'[i].screening_question_id = q}) <= 1
       /\ \A i \in DOMAIN responses' : Cardinality(ProcessRunsOf(i)') = 1
       /\ (resp' # resp /\ resp'.op = "isubmit" /\ resp'.code # 200)
            => responses' = responses /\ tasks' = tasks]_vars

C36_Witness ==
    /\ resp.op = "isubmit" /\ resp.code = 500 /\ resp.detail = "IntegrityError"
    /\ Len(responses) = 1
    /\ Cardinality(ProcessRunsOf(1)) = 1

\* the moves of a response's processing_status that the claim allows
StatusMoves == {<<"pending", "processing">>, <<"processing", "completed">>,
                <<"processing", "failed">>}

SummarizedOk(sid) ==
    \E t \in DOMAIN tasks :
        /\ tasks[t].kind = "summary" /\ tasks[t].id = sid
        /\ tasks[t].pc = "done" /\ tasks[t].outcome = "ok"

InProgressText == Some("Evaluation is still in progress. Please check back in a few moments.")

\* C39: once a summary run of a completed session has ended without error,
\* every read of that session's evaluation answers 200 with a non-null final
\* summary that is not the "still in progress" text, also when the reply
\* object had no overall_score or no final_evaluation_summary key.
C39_ReadAfterSummaryIsComplete ==
    [][(/\ resp' # resp /\ resp'.op = "read"
        /\ resp'.sid \in DOMAIN sessions
        /\ sessions[resp'.sid].status = "completed"
        /\ SummarizedOk(resp'.sid))
       => /\ resp'.code = 200
          /\ ~IsNull(resp'.body.final_evaluation_summary)
          /\ resp'.body.final_evaluation_summary # InProgressText]_vars

RECURSIVE SumOfRiskScores(_)
\* the sum of the per-type risk scores of the entries of flags
SumOfRiskScores(flags) ==
    IF flags = <<>> THEN 0
    ELSE _get_activity_risk_score(Head(flags).type) + SumOfRiskScores(Tail(flags))

\* C40: in the registry of monitored sessions risk_score is the sum of the
\* risk scores of the types in flags (5 for a type that is not in the table);
\* a call of _flag_suspicious_activity for a registered session appends one
\* flag of the given type, never lowers risk_score, and sends an alert
\* exactly when the new risk_score is greater than 50; a call for a session
\* that is not registered changes nothing and sends no alert.
C40_RiskScoreIsSumOfFlags ==
    /\ [](\A s \in DOMAIN suspicious_sessions :
            suspicious_sessions[s].risk_score = SumOfRiskScores(suspicious_sessions[s].flags))
    /\ [][flag_call'.n # flag_call.n =>
            LET s == flag_call'.session_id
            IN  IF s \in DOMAIN suspicious_sessions
                THEN /\ Len(suspicious_sessions'[s].flags) = Len(suspicious_sessions[s].flags) + 1
                     /\ SubSeq(suspicious_sessions'[s].flags, 1, Len(suspicious_sessions[s].flags))
                            = suspicious_sessions[s].flags
                     /\ suspicious_sessions'[s].flags[Len(suspicious_sessions'[s].flags)].type
                            = flag_call'.activity_type
                     /\ suspicious_sessions'[s].risk_score >= suspicious_sessions[s].risk_score
                     /\ flag_call'.alerted <=> suspicious_sessions'[s].risk_score > 50
                ELSE /\ suspicious_sessions' = suspicious_sessions
                     /\ ~flag_call'.alerted]_vars

\* two flags of 25 left the score at 50 without an alert; the third flag, of
\* a type that is not in the table, raised it to 55 and sent one
C40_Witness ==
    /\ "s1" \in DOMAIN suspicious_sessions
    /\ Len(suspicious_sessions["s1"].flags) = 3
    /\ suspicious_sessions["s1"].flags[3].type = "external_site_access_leetcode"
    /\ suspicious_sessions["s1"].risk_score = 55
    /\ flag_call.session_id = "s1" /\ flag_call.alerted

====
